---- MODULE Spec2Model ----
(***************************************************************************)
(* A model of PyLogicTools: the logic gates (logic_gates.py), the truth    *)
(* table generator (truth_table.py), the number system conversions        *)
(* (number_systems.py) and the main sequence of the ngspice wrapper       *)
(* script (logic_tools.py).                                                *)
(*                                                                         *)
(* Python values are records [t, v, s]: t is the type name, v the integer  *)
(* payload (bool and int), s the character sequence (str).  A raised       *)
(* exception is a record whose t is the exception's class name.            *)
(***************************************************************************)
EXTENDS Integers, Sequences, FiniteSets, TLC

VARIABLES gate, inputs, result,
          tt_op, tt_variables, tt_func, tt_result, tt_printed,
          num_vals, num_applied,
          pc, files, ngspice, ngspice_writes, stdout, stderr,
          sim_outcome, plot_called, plot_outcome, cleaned

gate_vars == <<gate, inputs, result>>
tt_vars == <<tt_op, tt_variables, tt_func, tt_result, tt_printed>>
num_vars == <<num_vals, num_applied>>
main_vars == <<pc, files, ngspice, ngspice_writes, stdout, stderr,
               sim_outcome, plot_called, plot_outcome, cleaned>>
vars == <<gate_vars, tt_vars, num_vars, main_vars>>

(***************************************************************************)
(* Bounds.                                                                 *)
(***************************************************************************)
MaxInputs == 3
MaxVars == 3
MaxDec == 255
NegDec == 3
MaxChain == 2

(***************************************************************************)
(* Python values.                                                          *)
(***************************************************************************)
PyBool(b) == [t |-> "bool", v |-> IF b THEN 1 ELSE 0, s |-> <<>>]
PyInt(i) == [t |-> "int", v |-> i, s |-> <<>>]
PyStr(x) == [t |-> "str", v |-> 0, s |-> x]
PyNone == [t |-> "NoneType", v |-> 0, s |-> <<>>]
Raise(e) == [t |-> e, v |-> 0, s |-> <<>>]
IsExc(x) == x.t \in {"TypeError", "ValueError"}

\* bool(x): the truth value Python gives a value
Truthy(x) ==
    CASE x.t = "bool" -> x.v # 0
      [] x.t = "int" -> x.v # 0
      [] x.t = "str" -> Len(x.s) > 0
      [] OTHER -> FALSE

\* the values handed to the gates
GateValues == {PyBool(FALSE), PyBool(TRUE), PyInt(-1), PyInt(0), PyInt(2), PyInt(3), PyNone}

SeqsUpTo(S, n) == UNION {[1..k -> S] : k \in 0..n}

(***************************************************************************)
(* logic_gates.py                                                          *)
(***************************************************************************)
all(it) == PyBool(\A i \in 1..Len(it) : Truthy(it[i]))

any(it) == PyBool(\E i \in 1..Len(it) : Truthy(it[i]))

RECURSIVE sumFrom(_, _, _)
sumFrom(it, i, acc) ==
    IF i > Len(it) THEN PyInt(acc)
    ELSE IF it[i].t \notin {"bool", "int"} THEN Raise("TypeError")
    ELSE sumFrom(it, i + 1, acc + it[i].v)

\* sum(iterable): 0 + each item; adding a non-number raises TypeError
sum(it) == sumFrom(it, 1, 0)

\* variant of AND: any in place of all
AND_any(args) == IF Len(args) = 0 THEN PyBool(TRUE) ELSE any(args)

AND(args) == IF Len(args) = 0 THEN PyBool(TRUE) ELSE all(args)

OR(args) == IF Len(args) = 0 THEN PyBool(FALSE) ELSE any(args)

\* variant of NOT: the truth value itself
NOT_identity(input_val) == PyBool(Truthy(input_val))

NOT(input_val) == PyBool(~Truthy(input_val))

XOR(args) ==
    IF Len(args) = 0 THEN PyBool(FALSE)
    ELSE LET true_count == sum(args)
         IN IF IsExc(true_count) THEN true_count
            ELSE PyBool(true_count.v % 2 = 1)

NAND(args) == NOT(AND(args))

NOR(args) == NOT(OR(args))

XNOR(args) ==
    LET r == XOR(args)
    IN IF IsExc(r) THEN r ELSE NOT(r)

GateInit ==
    /\ gate = "none"
    /\ inputs = <<>>
    /\ result = PyNone

CallAND ==
    /\ gate = "none"
    /\ \E args \in SeqsUpTo(GateValues, MaxInputs) :
        /\ gate' = "AND" /\ inputs' = args /\ result' = AND(args)
    /\ UNCHANGED <<tt_vars, num_vars, main_vars>>

CallOR ==
    /\ gate = "none"
    /\ \E args \in SeqsUpTo(GateValues, MaxInputs) :
        /\ gate' = "OR" /\ inputs' = args /\ result' = OR(args)
    /\ UNCHANGED <<tt_vars, num_vars, main_vars>>

CallNOT ==
    /\ gate = "none"
    /\ \E x \in GateValues :
        /\ gate' = "NOT" /\ inputs' = <<x>> /\ result' = NOT(x)
    /\ UNCHANGED <<tt_vars, num_vars, main_vars>>

CallXOR ==
    /\ gate = "none"
    /\ \E args \in SeqsUpTo(GateValues, MaxInputs) :
        /\ gate' = "XOR" /\ inputs' = args /\ result' = XOR(args)
    /\ UNCHANGED <<tt_vars, num_vars, main_vars>>

CallNAND ==
    /\ gate = "none"
    /\ \E args \in SeqsUpTo(GateValues, MaxInputs) :
        /\ gate' = "NAND" /\ inputs' = args /\ result' = NAND(args)
    /\ UNCHANGED <<tt_vars, num_vars, main_vars>>

CallNOR ==
    /\ gate = "none"
    /\ \E args \in SeqsUpTo(GateValues, MaxInputs) :
        /\ gate' = "NOR" /\ inputs' = args /\ result' = NOR(args)
    /\ UNCHANGED <<tt_vars, num_vars, main_vars>>

CallXNOR ==
    /\ gate = "none"
    /\ \E args \in SeqsUpTo(GateValues, MaxInputs) :
        /\ gate' = "XNOR" /\ inputs' = args /\ result' = XNOR(args)
    /\ UNCHANGED <<tt_vars, num_vars, main_vars>>

\* the caller takes the result; the gates keep no state between calls
GateReturn ==
    /\ gate # "none"
    /\ gate' = "none" /\ inputs' = <<>> /\ result' = PyNone
    /\ UNCHANGED <<tt_vars, num_vars, main_vars>>

(***************************************************************************)
(* truth_table.py                                                          *)
(***************************************************************************)
VarNames == {"A", "B", "C"}

\* The functions passed as expression_func: the gates themselves (variadic,
\* arity -1), NOT, the lambdas of and_table .. not_table, and a two-argument
\* function whose result is an integer rather than a bool (a + b).
ExprFuncs ==
    {[name |-> n, arity |-> -1] : n \in {"AND", "OR", "XOR", "NAND", "NOR", "XNOR"}}
    \cup {[name |-> "NOT", arity |-> 1]}
    \cup {[name |-> n, arity |-> 2] : n \in {"lambda_and", "lambda_or", "lambda_xor", "lambda_plus"}}
    \cup {[name |-> "lambda_not", arity |-> 1]}

lambda_and == [name |-> "lambda_and", arity |-> 2]
lambda_or == [name |-> "lambda_or", arity |-> 2]
lambda_xor == [name |-> "lambda_xor", arity |-> 2]
lambda_not == [name |-> "lambda_not", arity |-> 1]

\* f accepts a call with n positional arguments
Accepts(f, n) == f.arity = -1 \/ f.arity = n

\* the body of f on arguments it accepts
Body(f, args) ==
    CASE f.name \in {"AND", "lambda_and"} -> AND(args)
      [] f.name \in {"OR", "lambda_or"} -> OR(args)
      [] f.name \in {"XOR", "lambda_xor"} -> XOR(args)
      [] f.name = "NAND" -> NAND(args)
      [] f.name = "NOR" -> NOR(args)
      [] f.name = "XNOR" -> XNOR(args)
      [] f.name \in {"NOT", "lambda_not"} -> NOT(args[1])
      [] f.name = "lambda_plus" -> PyInt(args[1].v + args[2].v)

\* expression_func(*combo): binding the arguments fails with TypeError when
\* their number is not the function's arity
Call(f, args) ==
    IF ~Accepts(f, Len(args)) THEN Raise("TypeError") ELSE Body(f, args)

\* int(x) of one argument
int1(x) ==
    CASE x.t \in {"bool", "int"} -> PyInt(x.v)
      [] OTHER -> Raise("TypeError")

RECURSIVE extend(_, _, _)
\* [x + [y] for x in result for y in pool], from the i-th x on
extend(res, pool, i) ==
    IF i > Len(res) THEN <<>>
    ELSE [j \in 1..Len(pool) |-> Append(res[i], pool[j])] \o extend(res, pool, i + 1)

\* variant of extend: [[y] + x for x in result for y in pool]
RECURSIVE extend_front(_, _, _)
extend_front(res, pool, i) ==
    IF i > Len(res) THEN <<>>
    ELSE [j \in 1..Len(pool) |-> <<pool[j]>> \o res[i]] \o extend_front(res, pool, i + 1)

\* variant of product: the first position varies fastest
RECURSIVE product_lsb(_, _)
product_lsb(pool, repeat) ==
    IF repeat = 0 THEN << <<>> >>
    ELSE extend_front(product_lsb(pool, repeat - 1), pool, 1)

\* variant of product: the last tuple is lost
RECURSIVE product_short(_, _)
product_short(pool, repeat) ==
    IF repeat = 0 THEN << <<>> >>
    ELSE LET full == extend(product_short(pool, repeat - 1), pool, 1)
         IN SubSeq(full, 1, Len(full) - 1)

RECURSIVE product(_, _)
\* itertools.product(pool, repeat=n): result = [[]], then for each of the n
\* pools, result = [x + [y] for x in result for y in pool]
product(pool, repeat) ==
    IF repeat = 0 THEN << <<>> >>
    ELSE extend(product(pool, repeat - 1), pool, 1)

\* variant of Row: the negated result
Row_negated(combo, c) == [j \in 1..Len(combo) |-> combo[j].v] \o <<1 - c.v>>

\* list(combo) + [int(result)]
Row(combo, c) == [j \in 1..Len(combo) |-> combo[j].v] \o <<c.v>>

Returned(table) == [status |-> "returned", exc |-> "none", table |-> table, evals |-> Len(table)]
Raised(e, n) == [status |-> "raised", exc |-> e, table |-> <<>>, evals |-> n]

\* variant of fill_table: an exception ends the loop and the rows so far are returned
RECURSIVE fill_table_swallow(_, _, _, _)
fill_table_swallow(combinations, expression_func, i, table) ==
    IF i > Len(combinations) THEN Returned(table)
    ELSE LET combo == combinations[i]
             res == Call(expression_func, combo)
             c == int1(res)
         IN IF IsExc(res) \/ IsExc(c) THEN Returned(table)
            ELSE fill_table_swallow(combinations, expression_func, i + 1,
                                    Append(table, Row(combo, c)))

RECURSIVE fill_table(_, _, _, _)
\* the for loop of generate_table from the i-th combination on
fill_table(combinations, expression_func, i, table) ==
    IF i > Len(combinations) THEN Returned(table)
    ELSE LET combo == combinations[i]
             res == Call(expression_func, combo)
             c == int1(res)
         IN IF IsExc(res) THEN Raised(res.t, i)
            ELSE IF IsExc(c) THEN Raised(c.t, i)
            ELSE fill_table(combinations, expression_func, i + 1,
                            Append(table, Row(combo, c)))

generate_table(variables, expression_func) ==
    LET num_vars_ == Len(variables)
        combinations == product(<<PyInt(0), PyInt(1)>>, num_vars_)
    IN fill_table(combinations, expression_func, 1, <<>>)

\* show_table prints the header, the rule and one line per row
show_table(variables, table) == 2 + Len(table)

TableInit ==
    /\ tt_op = "none"
    /\ tt_variables = <<>>
    /\ tt_func = [name |-> "none", arity |-> 0]
    /\ tt_result = Raised("none", 0)
    /\ tt_printed = 0

\* generate_table(var_names, f), then show_table when it returned
GateTable(op, var_names, f) ==
    LET r == generate_table(var_names, f)
    IN /\ tt_op' = op
       /\ tt_variables' = var_names
       /\ tt_func' = f
       /\ tt_result' = r
       /\ tt_printed' = IF r.status = "returned" THEN show_table(var_names, r.table) ELSE 0

CallGenerateTable ==
    /\ tt_op = "none"
    /\ \E variables \in SeqsUpTo(VarNames, MaxVars), f \in ExprFuncs :
        /\ tt_op' = "generate_table"
        /\ tt_variables' = variables
        /\ tt_func' = f
        /\ tt_result' = generate_table(variables, f)
        /\ tt_printed' = 0
    /\ UNCHANGED <<gate_vars, num_vars, main_vars>>

and_table ==
    /\ tt_op = "none"
    /\ \E var_names \in SeqsUpTo(VarNames, MaxVars) :
        GateTable("and_table", var_names, lambda_and)
    /\ UNCHANGED <<gate_vars, num_vars, main_vars>>

or_table ==
    /\ tt_op = "none"
    /\ \E var_names \in SeqsUpTo(VarNames, MaxVars) :
        GateTable("or_table", var_names, lambda_or)
    /\ UNCHANGED <<gate_vars, num_vars, main_vars>>

xor_table ==
    /\ tt_op = "none"
    /\ \E var_names \in SeqsUpTo(VarNames, MaxVars) :
        GateTable("xor_table", var_names, lambda_xor)
    /\ UNCHANGED <<gate_vars, num_vars, main_vars>>

not_table ==
    /\ tt_op = "none"
    /\ \E var_names \in SeqsUpTo(VarNames, MaxVars) :
        GateTable("not_table", var_names, lambda_not)
    /\ UNCHANGED <<gate_vars, num_vars, main_vars>>

\* the caller takes the table; nothing is kept between calls
TableReturn ==
    /\ tt_op # "none"
    /\ tt_op' = "none"
    /\ tt_variables' = <<>>
    /\ tt_func' = [name |-> "none", arity |-> 0]
    /\ tt_result' = Raised("none", 0)
    /\ tt_printed' = 0
    /\ UNCHANGED <<gate_vars, num_vars, main_vars>>

(***************************************************************************)
(* number_systems.py                                                       *)
(***************************************************************************)
DigitChars == <<"0", "1", "2", "3", "4", "5", "6", "7", "8", "9",
                "a", "b", "c", "d", "e", "f">>
UpperChars == <<"0", "1", "2", "3", "4", "5", "6", "7", "8", "9",
                "A", "B", "C", "D", "E", "F">>

Abs(n) == IF n < 0 THEN -n ELSE n

RECURSIVE Digits(_, _)
\* the digits of n >= 0 in the base, most significant first, lower case
Digits(n, base) ==
    IF n < base THEN <<DigitChars[n + 1]>>
    ELSE Append(Digits(n \div base, base), DigitChars[(n % base) + 1])

\* bin(n): "0b..." or "-0b..."
bin(n) == (IF n < 0 THEN <<"-">> ELSE <<>>) \o <<"0", "b">> \o Digits(Abs(n), 2)

\* hex(n): "0x..." or "-0x...", lower case
hex(n) == (IF n < 0 THEN <<"-">> ELSE <<>>) \o <<"0", "x">> \o Digits(Abs(n), 16)

\* s[2:]
From2(s) == SubSeq(s, 3, Len(s))

UpperChar(c) ==
    IF \E i \in 11..16 : DigitChars[i] = c
    THEN UpperChars[CHOOSE i \in 11..16 : DigitChars[i] = c]
    ELSE IF c = "x" THEN "X" ELSE c

\* str.upper()
upper(s) == [i \in 1..Len(s) |-> UpperChar(s[i])]

\* the value of a digit character in the base, -1 when it is not a digit of it
DigitValue(c, base) ==
    IF \E i \in 1..base : DigitChars[i] = c \/ UpperChars[i] = c
    THEN (CHOOSE i \in 1..base : DigitChars[i] = c \/ UpperChars[i] = c) - 1
    ELSE -1

RECURSIVE Horner(_, _, _, _)
Horner(s, base, i, acc) ==
    IF i > Len(s) THEN acc
    ELSE Horner(s, base, i + 1, acc * base + DigitValue(s[i], base))

\* the digits of the argument of int(s, base): what follows the optional sign
\* and the optional base prefix (0b / 0B, 0x / 0X)
IntDigits(s, base) ==
    LET signed == Len(s) > 0 /\ s[1] \in {"-", "+"}
        body == IF signed THEN SubSeq(s, 2, Len(s)) ELSE s
        prefixes == IF base = 2 THEN {"b", "B"} ELSE {"x", "X"}
        prefixed == Len(body) >= 2 /\ body[1] = "0" /\ body[2] \in prefixes
    IN IF prefixed THEN From2(body) ELSE body

\* int(s, base) for base 2 and 16: an optional sign, an optional base prefix,
\* then at least one digit of the base; ValueError otherwise
int(s, base) ==
    LET neg == Len(s) > 0 /\ s[1] = "-"
        digits == IntDigits(s, base)
    IN IF Len(digits) = 0 \/ \E i \in 1..Len(digits) : DigitValue(digits[i], base) = -1
       THEN Raise("ValueError")
       ELSE PyInt((IF neg THEN -1 ELSE 1) * Horner(digits, base, 1, 0))

\* Python integers are unbounded; the model explores the conversions whose
\* values stay within 32-bit integers
IntLimit == 2 ^ 30 + (2 ^ 30 - 1)

RECURSIVE HornerFits(_, _, _, _)
HornerFits(s, base, i, acc) ==
    IF i > Len(s) THEN TRUE
    ELSE LET d == DigitValue(s[i], base)
         IN IF d = -1 THEN TRUE
            ELSE IF acc > (IntLimit - d) \div base THEN FALSE
            ELSE HornerFits(s, base, i + 1, acc * base + d)

Fits(s, base) == HornerFits(IntDigits(s, base), base, 1, 0)

\* variant of decimal_to_binary: the '0b' prefix is kept
decimal_to_binary_nostrip(decimal) == IF decimal = 0 THEN <<"0">> ELSE bin(decimal)

decimal_to_binary(decimal) == IF decimal = 0 THEN <<"0">> ELSE From2(bin(decimal))

binary_to_decimal(binary) == int(binary, 2)

decimal_to_hex(decimal) == upper(From2(hex(decimal)))

hex_to_decimal(hex_val) == int(hex_val, 16)

binary_to_hex(binary) ==
    LET decimal == binary_to_decimal(binary)
    IN IF IsExc(decimal) THEN decimal ELSE PyStr(decimal_to_hex(decimal.v))

hex_to_binary(hex_val) ==
    LET decimal == hex_to_decimal(hex_val)
    IN IF IsExc(decimal) THEN decimal ELSE PyStr(decimal_to_binary(decimal.v))

\* str.zfill(width): zeros on the left, after a leading sign
zfill(s, width) ==
    LET signed == Len(s) > 0 /\ s[1] \in {"-", "+"}
        pad == [i \in 1..(width - Len(s)) |-> "0"]
    IN IF Len(s) >= width THEN s
       ELSE IF signed THEN <<s[1]>> \o pad \o SubSeq(s, 2, Len(s))
       ELSE pad \o s

DefaultBits == 8

pad_binary(binary) == zfill(binary, DefaultBits)

NumInit ==
    /\ \E n \in (-NegDec)..MaxDec : num_vals = <<PyInt(n)>>
    /\ num_applied = <<>>

num_cur == num_vals[Len(num_vals)]

NumStep(name, v) ==
    /\ num_applied' = Append(num_applied, name)
    /\ num_vals' = Append(num_vals, v)
    /\ UNCHANGED <<gate_vars, tt_vars, main_vars>>

CallDecimalToBinary ==
    /\ Len(num_applied) < MaxChain /\ num_cur.t = "int"
    /\ NumStep("decimal_to_binary", PyStr(decimal_to_binary(num_cur.v)))

CallBinaryToDecimal ==
    /\ Len(num_applied) < MaxChain /\ num_cur.t = "str"
    /\ Fits(num_cur.s, 2)
    /\ NumStep("binary_to_decimal", binary_to_decimal(num_cur.s))

CallDecimalToHex ==
    /\ Len(num_applied) < MaxChain /\ num_cur.t = "int"
    /\ NumStep("decimal_to_hex", PyStr(decimal_to_hex(num_cur.v)))

CallHexToDecimal ==
    /\ Len(num_applied) < MaxChain /\ num_cur.t = "str"
    /\ Fits(num_cur.s, 16)
    /\ NumStep("hex_to_decimal", hex_to_decimal(num_cur.s))

CallBinaryToHex ==
    /\ Len(num_applied) < MaxChain /\ num_cur.t = "str"
    /\ Fits(num_cur.s, 2)
    /\ NumStep("binary_to_hex", binary_to_hex(num_cur.s))

CallHexToBinary ==
    /\ Len(num_applied) < MaxChain /\ num_cur.t = "str"
    /\ Fits(num_cur.s, 16)
    /\ NumStep("hex_to_binary", hex_to_binary(num_cur.s))

CallPadBinary ==
    /\ Len(num_applied) < MaxChain /\ num_cur.t = "str"
    /\ NumStep("pad_binary", PyStr(pad_binary(num_cur.s)))

(***************************************************************************)
(* logic_tools.py: the main sequence of the ngspice wrapper script.        *)
(* files is the set of the two file names that exist; ngspice is how the   *)
(* simulator behaves when run ("missing": no such command, "error": a      *)
(* non-zero exit, "ok"); ngspice_writes tells whether a run writes the     *)
(* output file before it exits.                                            *)
(***************************************************************************)
NETLIST_FILENAME == "common_source_amp.sp"
OUTPUT_FILENAME == "simulation_output.csv"

MainInit ==
    /\ pc = "write"
    /\ files \in SUBSET {NETLIST_FILENAME, OUTPUT_FILENAME}
    /\ ngspice \in {"missing", "error", "ok"}
    /\ ngspice_writes \in BOOLEAN
    /\ stdout = "unset"
    /\ stderr = "unset"
    /\ sim_outcome = "none"
    /\ plot_called = FALSE
    /\ plot_outcome = "none"
    /\ cleaned = FALSE

\* step 1: open(NETLIST_FILENAME, 'w') and write the netlist
MainWriteNetlist ==
    /\ pc = "write"
    /\ files' = files \cup {NETLIST_FILENAME}
    /\ pc' = "run"
    /\ UNCHANGED <<ngspice, ngspice_writes, stdout, stderr, sim_outcome,
                   plot_called, plot_outcome, cleaned,
                   gate_vars, tt_vars, num_vars>>

\* another process removes one of the files while the script runs
EnvRemove ==
    /\ pc \in {"run", "check", "plot"}
    /\ \E f \in files : files' = files \ {f}
    /\ UNCHANGED <<pc, ngspice, ngspice_writes, stdout, stderr, sim_outcome,
                   plot_called, plot_outcome, cleaned,
                   gate_vars, tt_vars, num_vars>>

\* the (stdout, stderr, outcome, files) that run_simulation(netlist_path) leaves
run_simulation(netlist_path) ==
    IF netlist_path \notin files
    THEN [stdout |-> "None", stderr |-> "None", outcome |-> "no_netlist", files |-> files]
    ELSE IF ngspice = "missing"
    THEN [stdout |-> "None", stderr |-> "Ngspice not found.",
          outcome |-> "FileNotFoundError", files |-> files]
    ELSE LET after == IF ngspice_writes THEN files \cup {OUTPUT_FILENAME} ELSE files
         IN IF ngspice = "error"
            THEN [stdout |-> "str", stderr |-> "str",
                  outcome |-> "CalledProcessError", files |-> after]
            ELSE [stdout |-> "str", stderr |-> "str",
                  outcome |-> "success", files |-> after]

\* step 2: stdout, stderr = run_simulation(NETLIST_FILENAME)
MainRunSimulation ==
    /\ pc = "run"
    /\ LET r == run_simulation(NETLIST_FILENAME)
       IN /\ stdout' = r.stdout
          /\ stderr' = r.stderr
          /\ sim_outcome' = r.outcome
          /\ files' = r.files
    /\ pc' = "check"
    /\ UNCHANGED <<ngspice, ngspice_writes, plot_called, plot_outcome, cleaned,
                   gate_vars, tt_vars, num_vars>>

\* the condition of step 3
ShouldPlot == stdout # "None" /\ OUTPUT_FILENAME \in files

\* step 3, true branch
MainCheckPlot ==
    /\ pc = "check"
    /\ ShouldPlot
    /\ pc' = "plot"
    /\ UNCHANGED <<files, ngspice, ngspice_writes, stdout, stderr, sim_outcome,
                   plot_called, plot_outcome, cleaned,
                   gate_vars, tt_vars, num_vars>>

\* step 3, else branch: "Skipping plotting ..."
MainSkipPlot ==
    /\ pc = "check"
    /\ ~ShouldPlot
    /\ pc' = "cleanup"
    /\ UNCHANGED <<files, ngspice, ngspice_writes, stdout, stderr, sim_outcome,
                   plot_called, plot_outcome, cleaned,
                   gate_vars, tt_vars, num_vars>>

\* step 4: parse_and_plot_results(OUTPUT_FILENAME); a failure to parse or to
\* plot is caught and printed
parse_and_plot_results ==
    /\ pc = "plot"
    /\ plot_called' = TRUE
    /\ IF OUTPUT_FILENAME \notin files
       THEN plot_outcome' = "not_found"
       ELSE plot_outcome' \in {"displayed", "error"}
    /\ pc' = "cleanup"
    /\ UNCHANGED <<files, ngspice, ngspice_writes, stdout, stderr, sim_outcome, cleaned,
                   gate_vars, tt_vars, num_vars>>

\* step 5: cleanup([NETLIST_FILENAME, OUTPUT_FILENAME])
cleanup ==
    /\ pc = "cleanup"
    /\ files' = files \ {NETLIST_FILENAME, OUTPUT_FILENAME}
    /\ cleaned' = TRUE
    /\ pc' = "done"
    /\ UNCHANGED <<ngspice, ngspice_writes, stdout, stderr, sim_outcome,
                   plot_called, plot_outcome,
                   gate_vars, tt_vars, num_vars>>

(***************************************************************************)
(* Specifications: one per source file.  Each leaves the state of the      *)
(* other files at its initial value.                                       *)
(***************************************************************************)
MainIdle ==
    /\ pc = "write" /\ files = {} /\ ngspice = "ok" /\ ngspice_writes = TRUE
    /\ stdout = "unset" /\ stderr = "unset" /\ sim_outcome = "none"
    /\ plot_called = FALSE /\ plot_outcome = "none" /\ cleaned = FALSE

NumIdle == num_vals = <<PyInt(0)>> /\ num_applied = <<>>

GateNext ==
    \/ CallAND
    \/ CallOR
    \/ CallNOT
    \/ CallXOR
    \/ CallNAND
    \/ CallNOR
    \/ CallXNOR
    \/ GateReturn

TableNext ==
    \/ CallGenerateTable
    \/ and_table
    \/ or_table
    \/ xor_table
    \/ not_table
    \/ TableReturn

NumNext ==
    \/ CallDecimalToBinary
    \/ CallBinaryToDecimal
    \/ CallDecimalToHex
    \/ CallHexToDecimal
    \/ CallBinaryToHex
    \/ CallHexToBinary
    \/ CallPadBinary

MainNext ==
    \/ MainWriteNetlist
    \/ EnvRemove
    \/ MainRunSimulation
    \/ MainCheckPlot
    \/ MainSkipPlot
    \/ parse_and_plot_results
    \/ cleanup

GateSpecInit == GateInit /\ TableInit /\ NumIdle /\ MainIdle
GateSpec == GateSpecInit /\ [][GateNext]_vars

TableSpecInit == GateInit /\ TableInit /\ NumIdle /\ MainIdle
TableSpec == TableSpecInit /\ [][TableNext]_vars

NumSpecInit == GateInit /\ TableInit /\ NumInit /\ MainIdle
NumSpec == NumSpecInit /\ [][NumNext]_vars

MainSpecInit == GateInit /\ TableInit /\ NumIdle /\ MainInit
MainSpec == MainSpecInit /\ [][MainNext]_vars

(***************************************************************************)
(* Properties of generate_table (TableSpec).                               *)
(***************************************************************************)
NumVars == Len(tt_variables)
Table == tt_result.table
Prefix(row) == SubSeq(row, 1, NumVars)
Pow2(n) == 2 ^ n

\* C1: for a variable list of length N >= 0 and an expression function that
\* accepts N arguments, generate_table returns exactly 2^N rows, each of
\* length N+1, no two rows have the same first N entries, and the first N
\* entries of the rows are exactly {0,1}^N.
C1_RowsEnumerateAllInputs ==
    (tt_op # "none" /\ Accepts(tt_func, NumVars)) =>
        /\ tt_result.status = "returned"
        /\ Len(Table) = Pow2(NumVars)
        /\ \A i \in 1..Len(Table) : Len(Table[i]) = NumVars + 1
        /\ \A i, j \in 1..Len(Table) : i # j => Prefix(Table[i]) # Prefix(Table[j])
        /\ {Prefix(Table[i]) : i \in 1..Len(Table)} = [1..NumVars -> {0, 1}]

C1_Witness ==
    /\ tt_op = "generate_table"
    /\ NumVars = 3
    /\ tt_result.status = "returned"
    /\ Len(Table) = 8

\* C2: the rows are in binary-counter order: the first N entries of the row
\* at index i (counted from 0) are the N-bit binary representation of i, the
\* first variable being the most significant bit.
C2_BinaryCounterOrder ==
    tt_result.status = "returned" =>
        \A i \in 1..Len(Table) : \A j \in 1..NumVars :
            Table[i][j] = ((i - 1) \div Pow2(NumVars - j)) % 2

C2_Witness ==
    /\ tt_result.status = "returned"
    /\ NumVars = 2
    /\ [i \in 1..Len(Table) |-> Prefix(Table[i])] = << <<0, 0>>, <<0, 1>>, <<1, 0>>, <<1, 1>> >>

\* C3: every entry of every returned row is the integer 0 or 1, also when the
\* expression function returns a truthy value that is not a canonical boolean.
C3_EntriesAreBits ==
    tt_result.status = "returned" =>
        \A i \in 1..Len(Table) : \A j \in 1..Len(Table[i]) : Table[i][j] \in {0, 1}

\* C5: when the arity of the expression function does not match the number of
\* variables, generate_table raises TypeError in the first evaluation, the
\* error reaches the caller and no table is returned or shown, for every
\* N >= 0.
C5_ArityMismatchRaises ==
    (tt_op # "none" /\ ~Accepts(tt_func, NumVars)) =>
        /\ tt_result.status = "raised"
        /\ tt_result.exc = "TypeError"
        /\ tt_result.evals = 1
        /\ tt_result.table = <<>>
        /\ tt_printed = 0

C5_Witness ==
    /\ tt_op = "and_table"
    /\ NumVars = 0
    /\ tt_result.status = "raised"
    /\ tt_result.exc = "TypeError"

\* C6: the last entry of every returned row is the expression function applied
\* to the row's first N entries, converted with int; generate_table of two
\* variables and AND is [[0,0,0],[0,1,0],[1,0,0],[1,1,1]] and of one variable
\* and NOT is [[0,1],[1,0]].
C6_ResultColumn ==
    tt_result.status = "returned" =>
        /\ \A i \in 1..Len(Table) :
              LET combo == [j \in 1..NumVars |-> PyInt(Table[i][j])]
              IN Table[i][NumVars + 1] = int1(Call(tt_func, combo)).v
        /\ (tt_func.name = "AND" /\ NumVars = 2) =>
              Table = << <<0, 0, 0>>, <<0, 1, 0>>, <<1, 0, 0>>, <<1, 1, 1>> >>
        /\ (tt_func.name \in {"NOT", "lambda_not"} /\ NumVars = 1) =>
              Table = << <<0, 1>>, <<1, 0>> >>

C6_Witness ==
    /\ tt_op = "not_table"
    /\ NumVars = 1
    /\ tt_result.status = "returned"
    /\ Table = << <<0, 1>>, <<1, 0>> >>

(***************************************************************************)
(* Properties of the gates (GateSpec).                                     *)
(***************************************************************************)
TruthyCount == Cardinality({i \in 1..Len(inputs) : Truthy(inputs[i])})

\* C4: XOR returns true exactly when the number of truthy inputs is odd, for
\* every sequence of inputs, integers other than 0 and 1 included.
C4_XorIsOddParity ==
    gate = "XOR" => result = PyBool(TruthyCount % 2 = 1)

\* C7: AND returns the boolean true exactly when every input is truthy (true
\* for no inputs), OR returns the boolean true exactly when some input is
\* truthy (false for no inputs), and neither rejects an input.
C7_AndOrTruthy ==
    /\ gate = "AND" => result = PyBool(TruthyCount = Len(inputs))
    /\ gate = "OR" => result = PyBool(TruthyCount > 0)

C7_Witness ==
    /\ gate = "OR"
    /\ inputs = <<PyInt(0), PyNone, PyInt(2)>>
    /\ result = PyBool(TRUE)

\* C8: NAND, NOR and XNOR are NOT applied to the result of AND, OR and XOR on
\* the same inputs, for every length; NAND of no inputs is false, NOR of no
\* inputs is true and XNOR of no inputs is true.
C8_NegatedGates ==
    /\ gate = "NAND" => result = NOT(AND(inputs))
    /\ gate = "NOR" => result = NOT(OR(inputs))
    /\ gate = "XNOR" =>
          IF IsExc(XOR(inputs)) THEN result = XOR(inputs) ELSE result = NOT(XOR(inputs))
    /\ (gate = "NAND" /\ inputs = <<>>) => result = PyBool(FALSE)
    /\ (gate = "NOR" /\ inputs = <<>>) => result = PyBool(TRUE)
    /\ (gate = "XNOR" /\ inputs = <<>>) => result = PyBool(TRUE)

C8_Witness ==
    /\ gate = "XNOR"
    /\ inputs = <<>>
    /\ result = PyBool(TRUE)

(***************************************************************************)
(* Properties of the conversions (NumSpec).                                *)
(***************************************************************************)
RECURSIVE BinValue(_)
\* the number a sequence of "0" and "1" denotes
BinValue(s) ==
    IF Len(s) = 0 THEN 0
    ELSE 2 * BinValue(SubSeq(s, 1, Len(s) - 1)) + (IF s[Len(s)] = "1" THEN 1 ELSE 0)

IsBinaryNumeralOf(s, n) ==
    /\ Len(s) >= 1
    /\ \A i \in 1..Len(s) : s[i] \in {"0", "1"}
    /\ Len(s) > 1 => s[1] = "1"
    /\ BinValue(s) = n

Ones8 == <<"1", "1", "1", "1", "1", "1", "1", "1">>

\* C9: for every n >= 0, decimal_to_binary(n) is the binary numeral of n
\* without leading zeros, binary_to_decimal(decimal_to_binary(n)) = n,
\* hex_to_decimal(decimal_to_hex(n)) = n and hex_to_binary(decimal_to_hex(n))
\* = decimal_to_binary(n); decimal_to_binary(255) and hex_to_binary("FF") are
\* "11111111".
C9_ConversionsRoundTrip ==
    LET n == num_vals[1].v
    IN n >= 0 =>
        /\ (Len(num_applied) >= 1 /\ num_applied[1] = "decimal_to_binary") =>
              /\ IsBinaryNumeralOf(num_vals[2].s, n)
              /\ n = 0 => num_vals[2].s = <<"0">>
              /\ n = 255 => num_vals[2].s = Ones8
        /\ num_applied = <<"decimal_to_binary", "binary_to_decimal">> =>
              num_vals[3] = PyInt(n)
        /\ num_applied = <<"decimal_to_hex", "hex_to_decimal">> =>
              num_vals[3] = PyInt(n)
        /\ num_applied = <<"decimal_to_hex", "hex_to_binary">> =>
              /\ num_vals[3] = PyStr(decimal_to_binary(n))
              /\ IsBinaryNumeralOf(num_vals[3].s, n)
        /\ (Len(num_applied) = 2 /\ num_applied[2] = "hex_to_binary"
                /\ num_vals[2].s = <<"F", "F">>) =>
              num_vals[3] = PyStr(Ones8)

C9_Witness ==
    /\ num_applied = <<"decimal_to_hex", "hex_to_binary">>
    /\ num_vals[1] = PyInt(255)
    /\ num_vals[2] = PyStr(<<"F", "F">>)
    /\ num_vals[3] = PyStr(Ones8)

(***************************************************************************)
(* Properties of the main sequence (MainSpec).                             *)
(***************************************************************************)
\* C10: parse_and_plot_results is called only after a successful ngspice run
\* (plotting is skipped when the netlist is missing, ngspice is not installed
\* or ngspice exits with an error), and the script ends only after cleanup.
C10_PlotOnlyAfterSuccess ==
    /\ (pc = "plot" \/ plot_called) => sim_outcome = "success"
    /\ pc = "done" => cleaned

====
